---- MODULE Spec2Model ----
(***************************************************************************)
(* Model of the rendezvous server of comit-network/rendezvous-server.      *)
(*                                                                         *)
(* The repository composes a libp2p transport (noise authentication, then  *)
(* yamux/mplex multiplexing, under one upgrade timeout), builds a swarm    *)
(* around libp2p's Rendezvous behaviour and runs an event loop that writes *)
(* one log record per rendezvous event.  Two binaries exist: src/main.rs   *)
(* and src/bin/rendezvous_server.rs.  The registration table itself lives  *)
(* inside the libp2p dependency and is not part of this model.             *)
(***************************************************************************)
EXTENDS Integers, Sequences, FiniteSets, TLC

\* ------------------------------------------------------------------ bounds

\* Number of inbound connections followed through their upgrade.
MaxConns == 2

\* Seconds of wall-clock time one Tick lets pass on an upgrading connection.
TickSeconds == 10

\* --------------------------------------------------------- program constants

\* .timeout(Duration::from_secs(20)) on the upgraded transport.
HandshakeTimeout == 20

\* ------------------------------------------------------------------- sets

ConnIds == 1..MaxConns

\* Identities a remote can prove possession of during the noise handshake.
Peers == {"A", "B"}

NoPeer == "none"

\* The two multiplexers offered by SelectUpgrade, in the order offered.
Muxers == {"yamux", "mplex"}

NoMuxer == "none"

Binaries == {"main", "bin"}

\* rendezvous::Event kinds produced by the server side of the behaviour.
RendezvousKinds ==
    {"PeerRegistered", "PeerNotRegistered", "RegistrationExpired",
     "PeerUnregistered", "DiscoverServed"}

\* The SwarmEvents the loop is handed: the rendezvous events, the ping
\* behaviour's event, and two of the swarm's own (one that src/main.rs names
\* and one that neither binary names).
SwarmEvents == RendezvousKinds \cup {"Ping", "NewListenAddr", "ConnectionClosed"}

NoRecord == "none"

VARIABLES
    binary,      \* which binary runs: "main" (src/main.rs) or "bin"
    subscriber,  \* the tracing subscriber installed at start-up
    conns,       \* ConnIds -> connection record
    lastEvent,   \* the SwarmEvent handled by the latest loop iteration
    lastLog      \* the log record that iteration wrote, or NoRecord

vars == <<binary, subscriber, conns, lastEvent, lastLog>>

\* ---------------------------------------------------------------- tracing

\* init_tracing / tracing::init: which subscriber the flags install.  `flag`
\* is --no-timestamp in src/main.rs and --timestamp in the other binary.
init_tracing(level, json_format, no_timestamp) ==
    IF level = "OFF" THEN "none"
    ELSE IF json_format THEN "json"
    ELSE IF no_timestamp THEN "without_time"
    ELSE "full"

init(level, json_format, timestamp) ==
    IF level = "OFF" THEN "none"
    ELSE IF json_format THEN "json"
    ELSE IF ~timestamp THEN "without_time"
    ELSE "full"

\* tracing::info!(...) under the installed subscriber: a record is written
\* whenever a subscriber is installed (the filter is rendezvous_server=INFO).
Info(sub, msg) == IF sub = "none" THEN NoRecord ELSE msg

\* ------------------------------------------------------------- event loops

\* The record the loop of src/main.rs writes for one SwarmEvent: one arm per
\* rendezvous event kind and for NewListenAddr, `_ => {}` for the rest.
MainLoopArm(sub, ev) ==
    CASE ev = "PeerRegistered"      -> Info(sub, "Peer registered")
      [] ev = "PeerNotRegistered"   -> Info(sub, "Peer failed to register")
      [] ev = "RegistrationExpired" -> Info(sub, "Registration expired")
      [] ev = "PeerUnregistered"    -> Info(sub, "Peer unregistered")
      [] ev = "DiscoverServed"      -> Info(sub, "Discovery served")
      [] ev = "NewListenAddr"       -> Info(sub, "New listening address reported")
      [] OTHER                      -> NoRecord

\* The record the loop of src/bin/rendezvous_server.rs writes: four arms,
\* `_ => {}` for the rest.
BinLoopArm(sub, ev) ==
    CASE ev = "PeerRegistered"      -> Info(sub, "Peer registered")
      [] ev = "PeerNotRegistered"   -> Info(sub, "Peer failed to register")
      [] ev = "RegistrationExpired" -> Info(sub, "Registration expired")
      [] ev = "PeerUnregistered"    -> Info(sub, "Peer unregistered")
      [] OTHER                      -> NoRecord

\* The message each rendezvous event kind is logged with.
Message(ev) ==
    CASE ev = "PeerRegistered"      -> "Peer registered"
      [] ev = "PeerNotRegistered"   -> "Peer failed to register"
      [] ev = "RegistrationExpired" -> "Registration expired"
      [] ev = "PeerUnregistered"    -> "Peer unregistered"
      [] ev = "DiscoverServed"      -> "Discovery served"
      [] OTHER                      -> NoRecord

\* One iteration of `loop { match swarm.select_next_some().await { .. } }`.
MainLoop(ev) ==
    /\ binary = "main"
    /\ lastEvent' = ev
    /\ lastLog' = MainLoopArm(subscriber, ev)
    /\ UNCHANGED <<binary, subscriber, conns>>

\* One iteration of `loop { let event = swarm.next().await; if let Some(..) }`.
BinLoop(ev) ==
    /\ binary = "bin"
    /\ lastEvent' = ev
    /\ lastLog' = BinLoopArm(subscriber, ev)
    /\ UNCHANGED <<binary, subscriber, conns>>

\* ------------------------------------------------------ transport upgrade

Upgrading(c) == conns[c].stage \in {"authenticating", "multiplexing"}

\* The timer of .timeout(Duration::from_secs(20)) has run out.
TimerElapsed(c) == conns[c].elapsed >= HandshakeTimeout

IdleConn ==
    [stage |-> "idle", elapsed |-> 0, verified |-> NoPeer, muxer |-> NoMuxer,
     peer |-> NoPeer, failure |-> "none", dispatched |-> NoPeer]

\* An upgrade that ended with an error: the upgrade future and all it held
\* are dropped, and only the error is left.
Failed(error) == [IdleConn EXCEPT !.stage = "failed", !.failure = error]

\* .map(|(peer, muxer), _| (peer, StreamMuxerBox::new(muxer))): the identity
\* handed on is the one the handshake produced.
MapOutput(verified, muxer) == [peer |-> verified, muxer |-> muxer]

\* The listener yields a raw stream; the upgrade (and its timer) starts.  The
\* upgrade modelled is authenticate_and_multiplex of src/main.rs; the other
\* binary takes its transport from the library's transport module.
Accept(c) ==
    /\ binary = "main"
    /\ conns[c].stage = "idle"
    /\ conns' = [conns EXCEPT ![c].stage = "authenticating"]
    /\ UNCHANGED <<binary, subscriber, lastEvent, lastLog>>

\* Time passes on a connection whose upgrade is still running.
Tick(c) ==
    /\ Upgrading(c)
    /\ ~TimerElapsed(c)
    /\ conns' = [conns EXCEPT ![c].elapsed = @ + TickSeconds]
    /\ UNCHANGED <<binary, subscriber, lastEvent, lastLog>>

\* .authenticate(NoiseConfig::xx(..).into_authenticated()): the remote proved
\* possession of the key of identity p; the next stage is the multiplexer.
Authenticate(c, p) ==
    /\ conns[c].stage = "authenticating"
    /\ ~TimerElapsed(c)
    /\ conns' = [conns EXCEPT ![c].stage = "multiplexing", ![c].verified = p]
    /\ UNCHANGED <<binary, subscriber, lastEvent, lastLog>>

\* The noise handshake fails: the upgrade ends with an error.
AuthenticateFail(c) ==
    /\ conns[c].stage = "authenticating"
    /\ ~TimerElapsed(c)
    /\ conns' = [conns EXCEPT ![c] = Failed("auth")]
    /\ UNCHANGED <<binary, subscriber, lastEvent, lastLog>>

\* Mutant of Multiplex: the timeout is applied before .multiplex(), so the
\* multiplexer negotiation is not covered by the timer.
MultiplexNoTimeout(c, m) ==
    /\ conns[c].stage = "multiplexing"
    /\ conns' = [conns EXCEPT ![c].stage = "established",
                              ![c].elapsed = 0,
                              ![c].muxer = m,
                              ![c].peer = conns[c].verified]
    /\ UNCHANGED <<binary, subscriber, lastEvent, lastLog>>

\* .multiplex(SelectUpgrade::new(yamux, mplex)) settles on m; the mapped
\* output (peer, muxer) is what the swarm receives as the new connection.
Multiplex(c, m) ==
    /\ conns[c].stage = "multiplexing"
    /\ ~TimerElapsed(c)
    /\ LET out == MapOutput(conns[c].verified, m)
       IN conns' = [conns EXCEPT ![c].stage = "established",
                                 ![c].elapsed = 0,
                                 ![c].muxer = out.muxer,
                                 ![c].peer = out.peer]
    /\ UNCHANGED <<binary, subscriber, lastEvent, lastLog>>

\* Neither multiplexer is agreed on: the upgrade ends with an error.
MultiplexFail(c) ==
    /\ conns[c].stage = "multiplexing"
    /\ ~TimerElapsed(c)
    /\ conns' = [conns EXCEPT ![c] = Failed("mux")]
    /\ UNCHANGED <<binary, subscriber, lastEvent, lastLog>>

\* The timer ran out before the upgrade finished: the upgrade ends with the
\* timeout error and no connection is produced.
UpgradeTimeout(c) ==
    /\ Upgrading(c)
    /\ TimerElapsed(c)
    /\ conns' = [conns EXCEPT ![c] = Failed("timeout")]
    /\ UNCHANGED <<binary, subscriber, lastEvent, lastLog>>

\* The swarm built from (transport, behaviour) hands an inbound request of an
\* established connection to the behaviour under the connection's peer id.
Dispatch(c) ==
    /\ conns[c].stage = "established"
    /\ conns[c].dispatched = NoPeer
    /\ conns' = [conns EXCEPT ![c].dispatched = conns[c].peer]
    /\ UNCHANGED <<binary, subscriber, lastEvent, lastLog>>

\* The remote or the network closes an established connection; its muxer and
\* streams go with it.
Close(c) ==
    /\ conns[c].stage = "established"
    /\ conns' = [conns EXCEPT ![c].stage = "closed", ![c].muxer = NoMuxer]
    /\ UNCHANGED <<binary, subscriber, lastEvent, lastLog>>

\* ---------------------------------------------------------- specification

Init ==
    /\ binary \in Binaries
    /\ \E json \in BOOLEAN, flag \in BOOLEAN :
          subscriber = IF binary = "main"
                       THEN init_tracing("INFO", json, flag)
                       ELSE init("INFO", json, flag)
    /\ conns = [c \in ConnIds |-> IdleConn]
    /\ lastEvent = "none"
    /\ lastLog = NoRecord

Next ==
    \/ \E ev \in SwarmEvents : MainLoop(ev)
    \/ \E ev \in SwarmEvents : BinLoop(ev)
    \/ \E c \in ConnIds : Accept(c)
    \/ \E c \in ConnIds : Tick(c)
    \/ \E c \in ConnIds, p \in Peers : Authenticate(c, p)
    \/ \E c \in ConnIds : AuthenticateFail(c)
    \/ \E c \in ConnIds, m \in Muxers : Multiplex(c, m)
    \/ \E c \in ConnIds : MultiplexFail(c)
    \/ \E c \in ConnIds : UpgradeTimeout(c)
    \/ \E c \in ConnIds : Dispatch(c)
    \/ \E c \in ConnIds : Close(c)

Spec == Init /\ [][Next]_vars

TypeOK ==
    /\ binary \in Binaries
    /\ subscriber \in {"json", "without_time", "full"}
    /\ lastEvent \in SwarmEvents \cup {"none"}
    /\ \A c \in ConnIds :
          /\ conns[c].stage \in {"idle", "authenticating", "multiplexing",
                                 "established", "closed", "failed"}
          /\ conns[c].elapsed \in 0..(HandshakeTimeout + TickSeconds)
          /\ conns[c].verified \in Peers \cup {NoPeer}
          /\ conns[c].peer \in Peers \cup {NoPeer}
          /\ conns[c].muxer \in Muxers \cup {NoMuxer}
          /\ conns[c].failure \in {"none", "auth", "mux", "timeout"}
          /\ conns[c].dispatched \in Peers \cup {NoPeer}

\* ----------------------------------------------------------------- claims

\* C7 (as claimed): every rendezvous event of the five kinds that a loop
\* iteration handles is written as a log record with that kind's message, in
\* either binary.  The loop of src/bin/rendezvous_server.rs has no arm for
\* DiscoverServed, so this is violated there.
C7_EveryRendezvousEventLogged ==
    lastEvent \in RendezvousKinds => lastLog = Message(lastEvent)

\* C8, the part that holds in every state: an established (or since closed)
\* connection went through authentication and multiplexer negotiation and
\* carries the identity the handshake verified; a request is dispatched only
\* for such a connection and under that identity; a failed upgrade produced no
\* peer and dispatched nothing.
C8_Established ==
    \A c \in ConnIds :
        /\ conns[c].stage = "established" =>
              /\ conns[c].verified \in Peers
              /\ conns[c].muxer \in Muxers
              /\ conns[c].peer = conns[c].verified
        /\ conns[c].stage = "closed" =>
              /\ conns[c].verified \in Peers
              /\ conns[c].peer = conns[c].verified
        /\ conns[c].dispatched # NoPeer =>
              /\ conns[c].stage \in {"established", "closed"}
              /\ conns[c].dispatched = conns[c].verified
        /\ conns[c].stage = "failed" =>
              /\ conns[c].peer = NoPeer
              /\ conns[c].dispatched = NoPeer

\* C8, the part about steps: a connection becomes established only from the
\* multiplexing stage, authenticated, and before the timer has run out; once
\* the timer has run out on a running upgrade the only thing that can happen
\* to it is the timeout error; a failed upgrade stays failed.
C8_Step ==
    \A c \in ConnIds :
        /\ (conns'[c].stage = "established" /\ conns[c].stage # "established") =>
              /\ conns[c].stage = "multiplexing"
              /\ conns[c].verified \in Peers
              /\ conns[c].elapsed < HandshakeTimeout
        /\ (Upgrading(c) /\ conns[c].elapsed >= HandshakeTimeout
                /\ conns'[c] # conns[c]) =>
              conns'[c] = Failed("timeout")
        /\ conns[c].stage = "failed" => conns'[c] = conns[c]

\* C8: a connection reaches the protocol layer only after authentication and
\* multiplexer negotiation completed within the handshake timeout, carrying
\* the verified PeerId; an upgrade that outlasts the timeout fails with the
\* timeout error and never becomes established or dispatches a request.
C8_UpgradeWithinTimeout == []C8_Established /\ [][C8_Step]_vars

\* Witness of C8: one connection is established and has dispatched a request
\* under its verified identity while another upgrade ended in the timeout.
C8_Witness ==
    \E c, d \in ConnIds :
        /\ conns[c].stage = "established"
        /\ conns[c].dispatched \in Peers
        /\ conns[d].stage = "failed"
        /\ conns[d].failure = "timeout"

====
